---- MODULE Spec2Model ----
(***************************************************************************)
(* Model of the four container components of                               *)
(* google_cloud_pipeline_components/v1:                                    *)
(*   bigquery/query_job, bigquery/export_model,                            *)
(*   bigquery/explain_forecast_model and wait_gcp_resources.               *)
(*                                                                         *)
(* A component is a function from keyword arguments to a ContainerSpec     *)
(* (image, command, args).  Strings are TLA+ strings; a parameter is       *)
(* represented by the text the orchestrator substitutes for it (a dict or  *)
(* list by its JSON text, a number by its decimal text).  The state keeps  *)
(* the default objects of the signatures, the last call and its result.    *)
(***************************************************************************)
EXTENDS Integers, Sequences, FiniteSets, TLC

VARIABLES defaults, call, result, calls

vars == <<defaults, call, result, calls>>

\* Number of invocations explored in one behaviour.
MaxCalls == 2

(***************************************************************************)
(* Keyword-argument binding                                                *)
(***************************************************************************)

\* A keyword argument the caller did not pass.
Omitted == "<omitted>"

\* Python binds the signature's default object to an omitted argument.
Bind(v, d) == IF v = Omitted THEN d ELSE v

\* The default objects created when the signatures are evaluated.
InitDefaults ==
  [ bigquery_query_job |->
      [ query |-> "", location |-> "us-central1", query_parameters |-> "[]",
        job_configuration_query |-> "{}", labels |-> "{}",
        encryption_spec_key_name |-> "" ],
    bigquery_export_model_job |->
      [ location |-> "us-central1", job_configuration_extract |-> "{}",
        labels |-> "{}" ],
    bigquery_explain_forecast_model_job |->
      [ location |-> "us-central1", horizon |-> "3",
        confidence_level |-> "0.95", query_parameters |-> "[]",
        job_configuration_query |-> "{}", labels |-> "{}",
        encryption_spec_key_name |-> "" ] ]

(***************************************************************************)
(* kfp.dsl building blocks as used by the components                       *)
(***************************************************************************)

\* ConcatPlaceholder([...]): the items joined left to right.
RECURSIVE ConcatPlaceholder(_)
ConcatPlaceholder(items) ==
  IF items = <<>> THEN ""
  ELSE Head(items) \o ConcatPlaceholder(Tail(items))

\* ContainerSpec(image=..., command=..., args=...)
ContainerSpec(image, command, args) ==
  [image |-> image, command |-> command, args |-> args]

\* Variant: the datasetId placeholder names the projectId field.
ModelMetadata_WrongField(m, field) ==
  IF field = "datasetId" THEN m["projectId"] ELSE m[field]

\* "{{$.inputs.artifacts['model'].metadata['<field>']}}" for artifact m.
ModelMetadata(m, field) == m[field]

(***************************************************************************)
(* The four components                                                     *)
(***************************************************************************)

\* Variant: the quote closing the query string literal is left out.
bigquery_query_job_UnclosedQuery(project, destination_table, gcp_resources, query, location, query_parameters, job_configuration_query, labels, encryption_spec_key_name) ==
  ContainerSpec(
    "gcr.io/ml-pipeline/google-cloud-pipeline-components:latest",
    << "python3", "-u", "-m",
       "google_cloud_pipeline_components.container.v1.bigquery.query_job.launcher" >>,
    << "--type",
       "BigqueryQueryJob",
       "--project",
       project,
       "--location",
       location,
       "--payload",
       ConcatPlaceholder(<<
         "{", "\"configuration\": {", "\"query\": ", job_configuration_query,
         ", \"labels\": ", labels, "}", "}" >>),
       "--job_configuration_query_override",
       ConcatPlaceholder(<<
         "{", "\"query\": \"", query, ", \"query_parameters\": ",
         query_parameters, ", \"destination_encryption_configuration\": {",
         "\"kmsKeyName\": \"", encryption_spec_key_name, "\"}", "}" >>),
       "--gcp_resources",
       gcp_resources,
       "--executor_input",
       "{{$}}" >>)

bigquery_query_job(project, destination_table, gcp_resources, query, location, query_parameters, job_configuration_query, labels, encryption_spec_key_name) ==
  ContainerSpec(
    "gcr.io/ml-pipeline/google-cloud-pipeline-components:latest",
    << "python3", "-u", "-m",
       "google_cloud_pipeline_components.container.v1.bigquery.query_job.launcher" >>,
    << "--type",
       "BigqueryQueryJob",
       "--project",
       project,
       "--location",
       location,
       "--payload",
       ConcatPlaceholder(<<
         "{", "\"configuration\": {", "\"query\": ", job_configuration_query,
         ", \"labels\": ", labels, "}", "}" >>),
       "--job_configuration_query_override",
       ConcatPlaceholder(<<
         "{", "\"query\": \"", query, "\"", ", \"query_parameters\": ",
         query_parameters, ", \"destination_encryption_configuration\": {",
         "\"kmsKeyName\": \"", encryption_spec_key_name, "\"}", "}" >>),
       "--gcp_resources",
       gcp_resources,
       "--executor_input",
       "{{$}}" >>)

\* Variant: the command names the launcher of another component.
wait_gcp_resources_WrongLauncher(input_gcp_resources, gcp_resources) ==
  ContainerSpec(
    "gcr.io/ml-pipeline/google-cloud-pipeline-components:latest",
    << "python3", "-u", "-m",
       "google_cloud_pipeline_components.container.v1.bigquery.query_job.launcher" >>,
    << "--type", "Wait", "--project", "", "--location", "",
       "--payload", input_gcp_resources, "--gcp_resources", gcp_resources >>)

\* Variant: the empty project and location values are left out.
wait_gcp_resources_NoEmptyValues(input_gcp_resources, gcp_resources) ==
  ContainerSpec(
    "gcr.io/ml-pipeline/google-cloud-pipeline-components:latest",
    << "python3", "-u", "-m",
       "google_cloud_pipeline_components.container.v1.wait_gcp_resources.launcher" >>,
    << "--type", "Wait", "--project", "--location",
       "--payload", input_gcp_resources, "--gcp_resources", gcp_resources >>)

\* Variant: --executor_input is passed as in the BigQuery components.
wait_gcp_resources_WithExecutorInput(input_gcp_resources, gcp_resources) ==
  ContainerSpec(
    "gcr.io/ml-pipeline/google-cloud-pipeline-components:latest",
    << "python3", "-u", "-m",
       "google_cloud_pipeline_components.container.v1.wait_gcp_resources.launcher" >>,
    << "--type", "Wait", "--project", "", "--location", "",
       "--payload", input_gcp_resources, "--gcp_resources", gcp_resources,
       "--executor_input", "{{$}}" >>)

wait_gcp_resources(input_gcp_resources, gcp_resources) ==
  ContainerSpec(
    "gcr.io/ml-pipeline/google-cloud-pipeline-components:latest",
    << "python3", "-u", "-m",
       "google_cloud_pipeline_components.container.v1.wait_gcp_resources.launcher" >>,
    << "--type",
       "Wait",
       "--project",
       "",
       "--location",
       "",
       "--payload",
       input_gcp_resources,
       "--gcp_resources",
       gcp_resources >>)

\* Variant: job_configuration_extract is emitted under the key "extract".
bigquery_export_model_job_ExtractKey(project, model, model_destination_path, exported_model_path, gcp_resources, location, job_configuration_extract, labels) ==
  ContainerSpec(
    "gcr.io/ml-pipeline/google-cloud-pipeline-components:latest",
    << "python3", "-u", "-m",
       "google_cloud_pipeline_components.container.v1.bigquery.export_model.launcher" >>,
    << "--type",
       "BigqueryExportModelJob",
       "--project",
       project,
       "--location",
       location,
       "--model_name",
       ConcatPlaceholder(<<
         ModelMetadata(model, "projectId"), ".",
         ModelMetadata(model, "datasetId"), ".",
         ModelMetadata(model, "modelId") >>),
       "--model_destination_path",
       model_destination_path,
       "--payload",
       ConcatPlaceholder(<<
         "{", "\"configuration\": {", "\"extract\": ",
         job_configuration_extract, ", \"labels\": ", labels, "}", "}" >>),
       "--exported_model_path",
       exported_model_path,
       "--gcp_resources",
       gcp_resources,
       "--executor_input",
       "{{$}}" >>)

bigquery_export_model_job(project, model, model_destination_path, exported_model_path, gcp_resources, location, job_configuration_extract, labels) ==
  ContainerSpec(
    "gcr.io/ml-pipeline/google-cloud-pipeline-components:latest",
    << "python3", "-u", "-m",
       "google_cloud_pipeline_components.container.v1.bigquery.export_model.launcher" >>,
    << "--type",
       "BigqueryExportModelJob",
       "--project",
       project,
       "--location",
       location,
       "--model_name",
       ConcatPlaceholder(<<
         ModelMetadata(model, "projectId"), ".",
         ModelMetadata(model, "datasetId"), ".",
         ModelMetadata(model, "modelId") >>),
       "--model_destination_path",
       model_destination_path,
       "--payload",
       ConcatPlaceholder(<<
         "{", "\"configuration\": {", "\"query\": ", job_configuration_extract,
         ", \"labels\": ", labels, "}", "}" >>),
       "--exported_model_path",
       exported_model_path,
       "--gcp_resources",
       gcp_resources,
       "--executor_input",
       "{{$}}" >>)

bigquery_explain_forecast_model_job(project, model, destination_table, gcp_resources, location, horizon, confidence_level, query_parameters, job_configuration_query, labels, encryption_spec_key_name) ==
  ContainerSpec(
    "gcr.io/ml-pipeline/google-cloud-pipeline-components:latest",
    << "python3", "-u", "-m",
       "google_cloud_pipeline_components.container.v1.bigquery.explain_forecast_model.launcher" >>,
    << "--type",
       "BigqueryExplainForecastModelJob",
       "--project",
       project,
       "--location",
       location,
       "--model_name",
       ConcatPlaceholder(<<
         ModelMetadata(model, "projectId"), ".",
         ModelMetadata(model, "datasetId"), ".",
         ModelMetadata(model, "modelId") >>),
       "--horizon",
       horizon,
       "--confidence_level",
       confidence_level,
       "--payload",
       ConcatPlaceholder(<<
         "{", "\"configuration\": {", "\"query\": ", job_configuration_query,
         ", \"labels\": ", labels, "}", "}" >>),
       "--job_configuration_query_override",
       ConcatPlaceholder(<<
         "{", "\"query_parameters\": ", query_parameters,
         ", \"destination_encryption_configuration\": {", "\"kmsKeyName\": \"",
         encryption_spec_key_name, "\"}", "}" >>),
       "--gcp_resources",
       gcp_resources,
       "--executor_input",
       "{{$}}" >>)

(***************************************************************************)
(* Argument values explored                                                *)
(***************************************************************************)

Projects == {"proj-a", "--project"}
OutputPaths == {"/gcs/out"}
Tables == {"destination_table"}
Queries == {Omitted, "SELECT 1", "a\"}"}
Locations == {Omitted, "EU"}
\* JSON text of ["p"] and of ["a\"}"]
QueryParameterLists == {Omitted, "[\"p\"]", "[\"a\\\"}\"]"}
\* JSON text of {"query": "SELECT 2"} and of {"k": "{"}
JobConfigurations == {Omitted, "{\"query\": \"SELECT 2\"}", "{\"k\": \"{\"}"}
LabelDicts == {Omitted, "{\"name\": \"wrench\"}"}
KeyNames == {Omitted, "key1", "k}"}
Models == { [projectId |-> "mp", datasetId |-> "ds", modelId |-> "m1"],
            [projectId |-> "m", datasetId |-> "pds", modelId |-> "m1"] }
DestinationPaths == {"gs://b/m", "gs://b/n"}
Horizons == {Omitted, "10"}
ConfidenceLevels == {Omitted, "0.8"}
GcpResources == {"{\"resources\": []}", "", "--payload"}

QueryJobArgs ==
  [ project : Projects, destination_table : Tables,
    gcp_resources : OutputPaths, query : Queries, location : Locations,
    query_parameters : QueryParameterLists,
    job_configuration_query : JobConfigurations, labels : LabelDicts,
    encryption_spec_key_name : KeyNames ]

ExportModelArgs ==
  [ project : Projects, model : Models,
    model_destination_path : DestinationPaths,
    exported_model_path : OutputPaths, gcp_resources : OutputPaths,
    location : Locations, job_configuration_extract : JobConfigurations,
    labels : LabelDicts ]

ExplainForecastArgs ==
  [ project : Projects, model : Models, destination_table : Tables,
    gcp_resources : OutputPaths, location : Locations, horizon : Horizons,
    confidence_level : ConfidenceLevels,
    query_parameters : {Omitted, "[\"p\"]"},
    job_configuration_query : {Omitted, "{\"query\": \"SELECT 2\"}"},
    labels : LabelDicts, encryption_spec_key_name : {Omitted, "key1"} ]

WaitArgs ==
  [ input_gcp_resources : GcpResources, gcp_resources : OutputPaths ]

(***************************************************************************)
(* Calling a component: bind the defaults, evaluate the body               *)
(***************************************************************************)

\* Variant: a call without query is rejected.
Call_bigquery_query_job_RequiresQuery(a, d) ==
  IF a.query = Omitted
  THEN [error |-> "TypeError: missing required argument: query"]
  ELSE bigquery_query_job(
         a.project, a.destination_table, a.gcp_resources,
         Bind(a.query, d.query),
         Bind(a.location, d.location),
         Bind(a.query_parameters, d.query_parameters),
         Bind(a.job_configuration_query, d.job_configuration_query),
         Bind(a.labels, d.labels),
         Bind(a.encryption_spec_key_name, d.encryption_spec_key_name))

\* Variant: a query given as parameter replaces job_configuration_query.
Call_bigquery_query_job_MergesOverride(a, d) ==
  bigquery_query_job(
    a.project, a.destination_table, a.gcp_resources,
    Bind(a.query, d.query),
    Bind(a.location, d.location),
    Bind(a.query_parameters, d.query_parameters),
    IF a.query = Omitted
    THEN Bind(a.job_configuration_query, d.job_configuration_query)
    ELSE "{\"query\": \"" \o a.query \o "\"}",
    Bind(a.labels, d.labels),
    Bind(a.encryption_spec_key_name, d.encryption_spec_key_name))

Call_bigquery_query_job(a, d) ==
  bigquery_query_job(
    a.project, a.destination_table, a.gcp_resources,
    Bind(a.query, d.query),
    Bind(a.location, d.location),
    Bind(a.query_parameters, d.query_parameters),
    Bind(a.job_configuration_query, d.job_configuration_query),
    Bind(a.labels, d.labels),
    Bind(a.encryption_spec_key_name, d.encryption_spec_key_name))

Call_bigquery_export_model_job(a, d) ==
  bigquery_export_model_job(
    a.project, a.model, a.model_destination_path, a.exported_model_path,
    a.gcp_resources,
    Bind(a.location, d.location),
    Bind(a.job_configuration_extract, d.job_configuration_extract),
    Bind(a.labels, d.labels))

Call_bigquery_explain_forecast_model_job(a, d) ==
  bigquery_explain_forecast_model_job(
    a.project, a.model, a.destination_table, a.gcp_resources,
    Bind(a.location, d.location),
    Bind(a.horizon, d.horizon),
    Bind(a.confidence_level, d.confidence_level),
    Bind(a.query_parameters, d.query_parameters),
    Bind(a.job_configuration_query, d.job_configuration_query),
    Bind(a.labels, d.labels),
    Bind(a.encryption_spec_key_name, d.encryption_spec_key_name))

Call_wait_gcp_resources(a) ==
  wait_gcp_resources(a.input_gcp_resources, a.gcp_resources)

(***************************************************************************)
(* State machine                                                           *)
(***************************************************************************)

NoCall == [component |-> "none", args |-> [project |-> ""]]
NoResult == ContainerSpec("", <<>>, <<>>)

Init ==
  /\ defaults = InitDefaults
  /\ call = NoCall
  /\ result = NoResult
  /\ calls = 0

\* Variant: the call writes the labels it was given into the default dict.
Invoke_bigquery_query_job_MutatesDefault(a) ==
  /\ calls < MaxCalls
  /\ result' = Call_bigquery_query_job(a, defaults.bigquery_query_job)
  /\ call' = [component |-> "bigquery_query_job", args |-> a]
  /\ calls' = calls + 1
  /\ defaults' =
       [defaults EXCEPT !.bigquery_query_job.labels = Bind(a.labels, @)]

Invoke_bigquery_query_job(a) ==
  /\ calls < MaxCalls
  /\ result' = Call_bigquery_query_job(a, defaults.bigquery_query_job)
  /\ call' = [component |-> "bigquery_query_job", args |-> a]
  /\ calls' = calls + 1
  /\ UNCHANGED defaults

Invoke_bigquery_export_model_job(a) ==
  /\ calls < MaxCalls
  /\ result' = Call_bigquery_export_model_job(
                  a, defaults.bigquery_export_model_job)
  /\ call' = [component |-> "bigquery_export_model_job", args |-> a]
  /\ calls' = calls + 1
  /\ UNCHANGED defaults

Invoke_bigquery_explain_forecast_model_job(a) ==
  /\ calls < MaxCalls
  /\ result' = Call_bigquery_explain_forecast_model_job(
                  a, defaults.bigquery_explain_forecast_model_job)
  /\ call' = [component |-> "bigquery_explain_forecast_model_job", args |-> a]
  /\ calls' = calls + 1
  /\ UNCHANGED defaults

Invoke_wait_gcp_resources(a) ==
  /\ calls < MaxCalls
  /\ result' = Call_wait_gcp_resources(a)
  /\ call' = [component |-> "wait_gcp_resources", args |-> a]
  /\ calls' = calls + 1
  /\ UNCHANGED defaults

Next ==
  \/ \E a \in QueryJobArgs : Invoke_bigquery_query_job(a)
  \/ \E a \in ExportModelArgs : Invoke_bigquery_export_model_job(a)
  \/ \E a \in ExplainForecastArgs :
        Invoke_bigquery_explain_forecast_model_job(a)
  \/ \E a \in WaitArgs : Invoke_wait_gcp_resources(a)

Spec == Init /\ [][Next]_vars

(***************************************************************************)
(* Reading an emitted spec                                                 *)
(***************************************************************************)

BigQueryComponents ==
  { "bigquery_query_job", "bigquery_export_model_job",
    "bigquery_explain_forecast_model_job" }

Components == BigQueryComponents \cup {"wait_gcp_resources"}

\* Every key of a result is one of ContainerSpec's three fields.
IsContainerSpec(r) == DOMAIN r = {"image", "command", "args"}

\* The elements at positions 0, 2, 4, ... and at 1, 3, 5, ... (counting from 0).
FlagsOf(args) == [i \in 1..(Len(args) \div 2) |-> args[2 * i - 1]]
ValuesOf(args) == [i \in 1..(Len(args) \div 2) |-> args[2 * i]]

FlagPositions(args, flag) == {i \in DOMAIN FlagsOf(args) : FlagsOf(args)[i] = flag}
HasFlag(args, flag) == FlagPositions(args, flag) # {}
ValueOf(args, flag) == ValuesOf(args)[CHOOSE i \in FlagPositions(args, flag) : TRUE]

\* The spec the call would return if it were the first invocation.
FirstCall(c) ==
  CASE c.component = "bigquery_query_job" ->
         Call_bigquery_query_job(c.args, InitDefaults.bigquery_query_job)
    [] c.component = "bigquery_export_model_job" ->
         Call_bigquery_export_model_job(
           c.args, InitDefaults.bigquery_export_model_job)
    [] c.component = "bigquery_explain_forecast_model_job" ->
         Call_bigquery_explain_forecast_model_job(
           c.args, InitDefaults.bigquery_explain_forecast_model_job)
    [] c.component = "wait_gcp_resources" ->
         Call_wait_gcp_resources(c.args)

Invoked == call.component \in Components

(***************************************************************************)
(* C1                                                                      *)
(***************************************************************************)

LauncherModuleOf(component) ==
  CASE component = "bigquery_query_job" ->
         "google_cloud_pipeline_components.container.v1.bigquery.query_job.launcher"
    [] component = "bigquery_export_model_job" ->
         "google_cloud_pipeline_components.container.v1.bigquery.export_model.launcher"
    [] component = "bigquery_explain_forecast_model_job" ->
         "google_cloud_pipeline_components.container.v1.bigquery.explain_forecast_model.launcher"
    [] component = "wait_gcp_resources" ->
         "google_cloud_pipeline_components.container.v1.wait_gcp_resources.launcher"

\* C1: whatever the arguments, every component emits the image
\* gcr.io/ml-pipeline/google-cloud-pipeline-components:latest and the command
\* python3 -u -m <the component's own launcher module>.
C1_ImageAndCommandFixed ==
  Invoked =>
    /\ result.image =
         "gcr.io/ml-pipeline/google-cloud-pipeline-components:latest"
    /\ result.command =
         <<"python3", "-u", "-m", LauncherModuleOf(call.component)>>

\* A wait call on a non-default payload has been answered.
C1_Witness ==
  /\ call.component = "wait_gcp_resources"
  /\ call.args.input_gcp_resources = "--payload"
  /\ result.image = "gcr.io/ml-pipeline/google-cloud-pipeline-components:latest"
  /\ Len(result.command) = 4

(***************************************************************************)
(* C2                                                                      *)
(***************************************************************************)

FlagNames ==
  { "--type", "--project", "--location", "--payload", "--gcp_resources",
    "--executor_input", "--model_name", "--model_destination_path",
    "--exported_model_path", "--horizon", "--confidence_level",
    "--job_configuration_query_override" }

CommonFlags ==
  <<"--type", "--project", "--location", "--payload", "--gcp_resources">>

\* C2: the argument list has even length, its even positions (from 0) hold
\* flag names, no flag name is used twice, and --type, --project, --location,
\* --payload, --gcp_resources each occur once as a flag, in that order.
C2_FlagsAlternate ==
  Invoked =>
    LET args == result.args
        flags == FlagsOf(args)
    IN /\ Len(args) % 2 = 0
       /\ \A i \in DOMAIN flags : flags[i] \in FlagNames
       /\ \A i, j \in DOMAIN flags : flags[i] = flags[j] => i = j
       /\ \A k \in DOMAIN CommonFlags :
            Cardinality(FlagPositions(args, CommonFlags[k])) = 1
       /\ \A k \in 1..(Len(CommonFlags) - 1) :
            \A i \in FlagPositions(args, CommonFlags[k]) :
              \A j \in FlagPositions(args, CommonFlags[k + 1]) : i < j

\* A call whose project value is itself spelled like a flag.
C2_Witness ==
  /\ call.component = "bigquery_explain_forecast_model_job"
  /\ call.args.project = "--project"
  /\ HasFlag(result.args, "--project")
  /\ ValueOf(result.args, "--project") = "--project"
  /\ Len(result.args) = 20

(***************************************************************************)
(* C3                                                                      *)
(***************************************************************************)

\* C3: the default objects are never modified and every invocation, however
\* many came before it, returns the spec it would return as first invocation.
C3_NoSharedState ==
  /\ defaults = InitDefaults
  /\ Invoked => result = FirstCall(call)

\* A second invocation that relies on the {} and [] defaults has been answered.
C3_Witness ==
  /\ calls = 2
  /\ call.component = "bigquery_query_job"
  /\ call.args.query_parameters = Omitted
  /\ call.args.job_configuration_query = Omitted
  /\ call.args.labels = Omitted
  /\ ValueOf(result.args, "--payload") =
       "{\"configuration\": {\"query\": {}, \"labels\": {}}}"

(***************************************************************************)
(* C4                                                                      *)
(***************************************************************************)

FlagSequenceOf(component) ==
  CASE component = "bigquery_query_job" ->
         << "--type", "--project", "--location", "--payload",
            "--job_configuration_query_override", "--gcp_resources",
            "--executor_input" >>
    [] component = "bigquery_export_model_job" ->
         << "--type", "--project", "--location", "--model_name",
            "--model_destination_path", "--payload", "--exported_model_path",
            "--gcp_resources", "--executor_input" >>
    [] component = "bigquery_explain_forecast_model_job" ->
         << "--type", "--project", "--location", "--model_name", "--horizon",
            "--confidence_level", "--payload",
            "--job_configuration_query_override", "--gcp_resources",
            "--executor_input" >>
    [] component = "wait_gcp_resources" ->
         << "--type", "--project", "--location", "--payload",
            "--gcp_resources" >>

ArgCountOf(component) ==
  CASE component = "bigquery_query_job" -> 14
    [] component = "bigquery_export_model_job" -> 18
    [] component = "bigquery_explain_forecast_model_job" -> 20
    [] component = "wait_gcp_resources" -> 10

\* C4: every call yields a ContainerSpec, never an error, and the flag
\* names and the number of arguments depend on the component only.
C4_NoValidation ==
  Invoked =>
    /\ IsContainerSpec(result)
    /\ Len(result.args) = ArgCountOf(call.component)
    /\ FlagsOf(result.args) = FlagSequenceOf(call.component)

\* A query job with an empty query and a key name containing a brace.
C4_Witness ==
  /\ call.component = "bigquery_query_job"
  /\ call.args.query = Omitted
  /\ call.args.encryption_spec_key_name = "k}"
  /\ IsContainerSpec(result)
  /\ Len(result.args) = 14

(***************************************************************************)
(* C5                                                                      *)
(***************************************************************************)

OverriddenParameters ==
  {"query", "query_parameters", "encryption_spec_key_name"}

\* The call with the overriding parameters left out.
WithoutOverrides(c) ==
  [c EXCEPT !.args =
     [k \in DOMAIN c.args |->
        IF k \in OverriddenParameters THEN Omitted ELSE c.args[k]]]

HasOverride(component) ==
  component \in {"bigquery_query_job", "bigquery_explain_forecast_model_job"}

\* C5: query, query_parameters and encryption_spec_key_name reach only the
\* value of --job_configuration_query_override; --payload carries
\* job_configuration_query unmodified under "query"; both flags are emitted.
C5_OverrideOnlyInOverrideArg ==
  (Invoked /\ HasOverride(call.component)) =>
    LET args == result.args
        base == FirstCall(WithoutOverrides(call)).args
        d == InitDefaults[call.component]
    IN /\ HasFlag(args, "--payload")
       /\ HasFlag(args, "--job_configuration_query_override")
       /\ ValueOf(args, "--payload") =
            "{\"configuration\": {\"query\": "
              \o Bind(call.args.job_configuration_query,
                      d.job_configuration_query)
              \o ", \"labels\": " \o Bind(call.args.labels, d.labels) \o "}}"
       /\ Len(args) = Len(base)
       /\ \A i \in DOMAIN args :
            args[i] # base[i] =>
              /\ i > 1
              /\ args[i - 1] = "--job_configuration_query_override"

\* query is given both as a parameter and inside job_configuration_query.
C5_Witness ==
  /\ call.component = "bigquery_query_job"
  /\ call.args.query = "SELECT 1"
  /\ call.args.job_configuration_query = "{\"query\": \"SELECT 2\"}"
  /\ ValueOf(result.args, "--payload") =
       "{\"configuration\": {\"query\": {\"query\": \"SELECT 2\"}, \"labels\": {}}}"
  /\ ValueOf(result.args, "--job_configuration_query_override") =
       "{\"query\": \"SELECT 1\", \"query_parameters\": [], \"destination_encryption_configuration\": {\"kmsKeyName\": \"\"}}"

(***************************************************************************)
(* C6                                                                      *)
(***************************************************************************)

\* C6: a BigQuery component called without location emits US after
\* --location.
C6_LocationDefaultsToUS ==
  (/\ call.component \in BigQueryComponents
   /\ call.args.location = Omitted)
    => ValueOf(result.args, "--location") = "US"

(***************************************************************************)
(* C7                                                                      *)
(***************************************************************************)

HasModel(component) ==
  component \in {"bigquery_export_model_job",
                 "bigquery_explain_forecast_model_job"}

\* Some call of the other model-taking component on the same artifact.
OtherModelCall(c) ==
  IF c.component = "bigquery_export_model_job"
  THEN [component |-> "bigquery_explain_forecast_model_job",
        args |-> CHOOSE a \in ExplainForecastArgs :
                   a.model = c.args.model /\ a.project # c.args.project]
  ELSE [component |-> "bigquery_export_model_job",
        args |-> CHOOSE a \in ExportModelArgs :
                   a.model = c.args.model /\ a.project # c.args.project]

\* C7: the value after --model_name is projectId.datasetId.modelId of the
\* model artifact, two separators and nothing else, and the export and the
\* explain-forecast component emit the same value for the same artifact.
C7_ModelName ==
  (Invoked /\ HasModel(call.component)) =>
    LET m == call.args.model
        name == ValueOf(result.args, "--model_name")
    IN /\ name = m.projectId \o "." \o m.datasetId \o "." \o m.modelId
       /\ Len(name) = Len(m.projectId) + Len(m.datasetId) + Len(m.modelId) + 2
       /\ name = ValueOf(FirstCall(OtherModelCall(call)).args, "--model_name")

\* An export whose project differs from the model's project.
C7_Witness ==
  /\ call.component = "bigquery_export_model_job"
  /\ call.args.model.projectId = "m"
  /\ call.args.project = "proj-a"
  /\ call.args.location = "EU"
  /\ ValueOf(result.args, "--model_name") = "m.pds.m1"

(***************************************************************************)
(* C8                                                                      *)
(***************************************************************************)

\* The last n elements of a sequence.
LastN(seq, n) == SubSeq(seq, Len(seq) - n + 1, Len(seq))

\* C8: wait_gcp_resources emits exactly --type Wait --project '' --location ''
\* --payload <input_gcp_resources> --gcp_resources <gcp_resources>, with no
\* --executor_input; the BigQuery components end with --executor_input {{$}}.
C8_WaitArgs ==
  /\ call.component = "wait_gcp_resources" =>
       /\ result.args =
            << "--type", "Wait", "--project", "", "--location", "",
               "--payload", call.args.input_gcp_resources,
               "--gcp_resources", call.args.gcp_resources >>
       /\ ~ HasFlag(result.args, "--executor_input")
  /\ call.component \in BigQueryComponents =>
       LastN(result.args, 2) = <<"--executor_input", "{{$}}">>

\* A wait call on a JSON payload has been answered.
C8_Witness ==
  /\ call.component = "wait_gcp_resources"
  /\ call.args.input_gcp_resources = "{\"resources\": []}"
  /\ Len(result.args) = 10
  /\ result.args[8] = "{\"resources\": []}"

(***************************************************************************)
(* C9                                                                      *)
(***************************************************************************)

\* Brace depth after each prefix of s, starting from depth d: the sequence
\* of depths reached, character by character.
RECURSIVE BraceDepths(_, _)
BraceDepths(s, d) ==
  IF s = "" THEN <<>>
  ELSE LET c == Head(s)
           e == IF c = "{" THEN d + 1 ELSE IF c = "}" THEN d - 1 ELSE d
       IN <<e>> \o BraceDepths(Tail(s), e)

BraceDepthAfter(s) ==
  IF s = "" THEN 0 ELSE BraceDepths(s, 0)[Len(s)]

\* Every } closes an earlier { and every { is closed.
BraceBalanced(s) ==
  /\ \A i \in 1..Len(s) : BraceDepths(s, 0)[i] >= 0
  /\ BraceDepthAfter(s) = 0

JobConfigurationOf(c) ==
  IF c.component = "bigquery_export_model_job"
  THEN Bind(c.args.job_configuration_extract,
            InitDefaults[c.component].job_configuration_extract)
  ELSE Bind(c.args.job_configuration_query,
            InitDefaults[c.component].job_configuration_query)

LabelsOf(c) == Bind(c.args.labels, InitDefaults[c.component].labels)

\* C9: the three BigQuery components emit after --payload
\* {"configuration": {"query": <job configuration>, "labels": <labels>}},
\* the export component included; when the two inserted values are
\* brace-balanced the payload is brace-balanced and both values sit at
\* brace depth two.
C9_PayloadTemplate ==
  (Invoked /\ call.component \in BigQueryComponents) =>
    LET jc == JobConfigurationOf(call)
        lb == LabelsOf(call)
        payload == ValueOf(result.args, "--payload")
        upToConfig == "{\"configuration\": {\"query\": "
        upToLabels == upToConfig \o jc \o ", \"labels\": "
    IN /\ payload = upToLabels \o lb \o "}}"
       /\ (BraceBalanced(jc) /\ BraceBalanced(lb)) =>
            /\ BraceBalanced(payload)
            /\ BraceDepthAfter(SubSeq(payload, 1, Len(upToConfig))) = 2
            /\ BraceDepthAfter(SubSeq(payload, 1, Len(upToLabels))) = 2

\* An export with a brace-balanced job_configuration_extract and labels.
C9_Witness ==
  /\ call.component = "bigquery_export_model_job"
  /\ call.args.job_configuration_extract = "{\"query\": \"SELECT 2\"}"
  /\ call.args.labels = "{\"name\": \"wrench\"}"
  /\ BraceBalanced(ValueOf(result.args, "--payload"))

(***************************************************************************)
(* C10                                                                     *)
(***************************************************************************)

\* One left-to-right pass over a JSON-like text.  depth counts open { and [
\* outside string literals; keys collects the string literals that start in
\* key position of the outermost object; ok turns FALSE when a bracket
\* closes nothing or the outermost value ends before the text does.
ScanStart ==
  [ depth |-> 0, inString |-> FALSE, escaped |-> FALSE, current |-> "",
    isKey |-> FALSE, expectKey |-> FALSE, keys |-> <<>>, ok |-> TRUE,
    closed |-> FALSE ]

ScanChar(st, c) ==
  IF st.inString
  THEN IF st.escaped
       THEN [st EXCEPT !.escaped = FALSE, !.current = @ \o c]
       ELSE IF c = "\\" THEN [st EXCEPT !.escaped = TRUE]
       ELSE IF c = "\""
            THEN [st EXCEPT !.inString = FALSE,
                            !.keys = IF st.isKey THEN Append(@, st.current)
                                     ELSE @]
            ELSE [st EXCEPT !.current = @ \o c]
  ELSE IF st.closed THEN [st EXCEPT !.ok = FALSE]
  ELSE IF c = "\""
       THEN [st EXCEPT !.inString = TRUE, !.current = "",
                       !.isKey = (st.depth = 1 /\ st.expectKey),
                       !.expectKey = FALSE]
  ELSE IF c \in {"{", "["}
       THEN [st EXCEPT !.depth = @ + 1,
                       !.expectKey = (c = "{" /\ st.depth = 0)]
  ELSE IF c \in {"}", "]"}
       THEN [st EXCEPT !.depth = @ - 1, !.ok = @ /\ st.depth > 0,
                       !.closed = (st.depth <= 1)]
  ELSE IF c = "," THEN [st EXCEPT !.expectKey = (st.depth = 1)]
  ELSE st

RECURSIVE Scan(_, _)
Scan(s, st) ==
  IF s = "" \/ ~ st.ok THEN st ELSE Scan(Tail(s), ScanChar(st, Head(s)))

\* The text is one object whose brackets balance outside string literals,
\* whose string literals are all closed, and the top-level keys are these.
WellFormedObject(s, keys) ==
  LET st == Scan(s, ScanStart)
  IN /\ s # "" /\ Head(s) = "{"
     /\ st.ok /\ st.depth = 0 /\ ~ st.inString
     /\ st.keys = keys

RECURSIVE HasChar(_, _)
HasChar(s, c) ==
  IF s = "" THEN FALSE ELSE Head(s) = c \/ HasChar(Tail(s), c)

QuoteFree(s) == ~ HasChar(s, "\"") /\ ~ HasChar(s, "\\")

OverrideTemplate(query, query_parameters, encryption_spec_key_name) ==
  "{\"query\": \"" \o query \o "\", \"query_parameters\": "
    \o query_parameters
    \o ", \"destination_encryption_configuration\": {\"kmsKeyName\": \""
    \o encryption_spec_key_name \o "\"}}"

\* The (query, query_parameters, encryption_spec_key_name) a call binds.
OverrideTriple(a) ==
  << Bind(a.query, InitDefaults.bigquery_query_job.query),
     Bind(a.query_parameters, InitDefaults.bigquery_query_job.query_parameters),
     Bind(a.encryption_spec_key_name,
          InitDefaults.bigquery_query_job.encryption_spec_key_name) >>

\* C10: bigquery_query_job emits after --job_configuration_query_override
\* {"query": "<query>", "query_parameters": <query_parameters>,
\*  "destination_encryption_configuration": {"kmsKeyName": "<key name>"}}
\* with the values verbatim; when query and key name hold no double quote
\* and no backslash the value is a well-formed object with exactly those
\* three top-level keys, and no other such triple yields the same value.
C10_OverrideValue ==
  call.component = "bigquery_query_job" =>
    LET t == OverrideTriple(call.args)
        override == ValueOf(result.args, "--job_configuration_query_override")
    IN /\ override = OverrideTemplate(t[1], t[2], t[3])
       /\ (QuoteFree(t[1]) /\ QuoteFree(t[3])) =>
            /\ WellFormedObject(
                 override,
                 << "query", "query_parameters",
                    "destination_encryption_configuration" >>)
            /\ \A a \in QueryJobArgs :
                 LET u == OverrideTriple(a)
                 IN (/\ QuoteFree(u[1]) /\ QuoteFree(u[3])
                     /\ ValueOf(FirstCall([component |-> "bigquery_query_job",
                                           args |-> a]).args,
                                "--job_configuration_query_override")
                          = override)
                      => u = t

\* A quote-free query and a key name with a brace, next to query parameters
\* holding an escaped quote.
C10_Witness ==
  /\ call.component = "bigquery_query_job"
  /\ call.args.query = "SELECT 1"
  /\ call.args.query_parameters = "[\"a\\\"}\"]"
  /\ call.args.encryption_spec_key_name = "k}"
  /\ WellFormedObject(
       ValueOf(result.args, "--job_configuration_query_override"),
       <<"query", "query_parameters", "destination_encryption_configuration">>)

====
